---- MODULE Spec2Model ----
(***************************************************************************)
(* A model of rateyu/chat-txt2pdf:                                         *)
(*   - export-txt2pdf2.py  the incremental export driver                   *)
(*   - export-txt2pdf.py   the full export driver                          *)
(*   - convert_all_chat.py the log normaliser (extractor, aggregator,      *)
(*                         text renderer)                                  *)
(*                                                                         *)
(* Python strings are modelled as sequences of one-character strings.  A   *)
(* few fixed substrings are single tokens; each is named where it is used. *)
(***************************************************************************)
EXTENDS Integers, Sequences, FiniteSets, TLC

\* ---------------------------------------------------------------- bounds

\* The normalized files the scan may find, in sorted() order.
AllPaths == <<"a.txt", "b.txt", "c.txt">>

\* The contents a normalized file may have.
Contents == {"v1", "v2"}

\* The most entries the working directory holds.
MaxFiles == 3

\* The largest number a run of the naming model puts in a name.
MaxIdx == 12

\* The most lines of a line-delimited input file.
MaxLines == 2

\* The most input files one batch walks through.
MaxBatch == 2

\* The most messages handed to the text renderer.
MaxMsgs == 2

\* The most lines of one message text.
MaxTextLines == 2

\* --------------------------------------------------------------- helpers

Range(s) == {s[i] : i \in 1..Len(s)}

RECURSIVE SetMax(_)
SetMax(S) ==
    IF S = {} THEN 0
    ELSE LET x == CHOOSE y \in S : TRUE
             m == SetMax(S \ {x})
         IN IF x > m THEN x ELSE m

\* ------------------------------------------------- change-tracking store

\* hashlib.md5 over the file's bytes: equal bytes, equal digest; MD5 is
\* taken to be collision-free on the contents of the model.
hash_file(content) ==
    CASE content = "v1" -> "h1"
      [] content = "v2" -> "h2"

NoFile == [exists |-> FALSE, toks |-> <<>>]

\* json.dump(state, f, indent=2) hands the file one chunk after the other:
\* the opening brace, the entries in the dict's order, the closing brace.
Serialize(state) ==
    LET keys == SelectSeq(AllPaths, LAMBDA p : p \in DOMAIN state)
    IN  <<<<"{">>>> \o [i \in 1..Len(keys) |-> <<"kv", keys[i], state[keys[i]]>>]
        \o <<<<"}">>>>

\* json.load: a text that is not a complete document raises.
ParsesAsDict(toks) ==
    /\ Len(toks) >= 2
    /\ toks[1] = <<"{">>
    /\ toks[Len(toks)] = <<"}">>
    /\ \A i \in 2..(Len(toks) - 1) : toks[i][1] = "kv"

EmptyState == [p \in {} |-> "h1"]

\* A store that forgets: whatever the file holds, nothing was recorded.
load_state_forgets(file) == EmptyState

ParsedDict(toks) ==
    LET ents == SubSeq(toks, 2, Len(toks) - 1)
        keys == {ents[i][2] : i \in 1..Len(ents)}
    IN  [k \in keys |->
            ents[SetMax({i \in 1..Len(ents) : ents[i][2] = k})][3]]

load_state(file) ==
    IF ~file.exists THEN EmptyState
    ELSE IF ParsesAsDict(file.toks) THEN ParsedDict(file.toks)
    ELSE EmptyState

\* ------------------------------------------------------- artifact naming

\* A file name is a sequence of tokens.  "BASE" is the string
\* f"{prefix}_{today}", ".pdf" the extension; every other token is one
\* character.
BasePdf == <<"BASE", ".pdf">>

startswith_base(name) == Len(name) >= 1 /\ name[1] = "BASE"

endswith_pdf(name) == Len(name) >= 1 /\ name[Len(name)] = ".pdf"

IsDigit(c) == c \in {"0", "1", "2", "3", "4", "5", "6", "7", "8", "9"}

DigitVal(c) ==
    CASE c = "0" -> 0 [] c = "1" -> 1 [] c = "2" -> 2 [] c = "3" -> 3
      [] c = "4" -> 4 [] c = "5" -> 5 [] c = "6" -> 6 [] c = "7" -> 7
      [] c = "8" -> 8 [] c = "9" -> 9

DigitChar(n) == <<"0", "1", "2", "3", "4", "5", "6", "7", "8", "9">>[n + 1]

\* int(): the value of a run of decimal digits, leading zeros allowed.
RECURSIVE int(_)
int(ds) ==
    IF ds = <<>> THEN 0
    ELSE 10 * int(SubSeq(ds, 1, Len(ds) - 1)) + DigitVal(ds[Len(ds)])

\* str() of a natural number: decimal, no leading zero.
RECURSIVE str(_)
str(n) ==
    IF n < 10 THEN <<DigitChar(n)>>
    ELSE str(n \div 10) \o <<DigitChar(n % 10)>>

\* The longest run of digits s starts with (the group of \d+).
RECURSIVE DigitRun(_)
DigitRun(s) ==
    IF s # <<>> /\ IsDigit(s[1]) THEN <<s[1]>> \o DigitRun(Tail(s)) ELSE <<>>

\* idx of one candidate: s = name[len(base):-4]; re.match(r"_(\d+)", s).
name_idx(name) ==
    LET s == SubSeq(name, 2, Len(name) - 1)
    IN  IF s = <<>> THEN 1
        ELSE IF s[1] = "_" /\ DigitRun(Tail(s)) # <<>>
             THEN int(DigitRun(Tail(s)))
             ELSE 1

\* The largest number in use, handed out again.
next_idx_no_increment(candidates) ==
    SetMax({1} \cup {name_idx(n) : n \in candidates})

next_idx(candidates) ==
    SetMax({1} \cup {name_idx(n) : n \in candidates}) + 1

\* The naming function without its last test: a suffix whenever any
\* candidate exists.
get_dated_pdf_name_suffix_if_any(listdir) ==
    LET candidates == {f \in listdir : startswith_base(f) /\ endswith_pdf(f)}
    IN  IF candidates = {} THEN BasePdf
        ELSE <<"BASE", "_">> \o str(next_idx(candidates)) \o <<".pdf">>

get_dated_pdf_name(listdir) ==
    LET candidates == {f \in listdir : startswith_base(f) /\ endswith_pdf(f)}
    IN  IF candidates = {} THEN BasePdf
        ELSE IF \E name \in candidates : name = BasePdf
             THEN <<"BASE", "_">> \o str(next_idx(candidates)) \o <<".pdf">>
             ELSE BasePdf

\* ------------------------------------------------------------- variables

VARIABLES
    \* the export drivers (export-txt2pdf2.py, export-txt2pdf.py)
    files,            \* TXT_ROOT: path -> content, "absent" when no such file
    stateFile,        \* STATE_FILE on disk
    listdir,          \* the names in the working directory
    pc,               \* where main() stands
    mode,             \* "incr": export-txt2pdf2.py, "full": export-txt2pdf.py
    old_state,        \* main's local
    new_state,        \* main's local
    files_to_export,  \* main's local (the full driver renders every file)
    pdf_name,         \* main's local
    rendered,         \* the rendering step of this run has returned
    outcome,          \* how the last run ended
    run0,             \* files, stateFile and listdir when the run started
    \* history of the export runs (no variable of the program)
    clean,            \* the last save returned and no file changed since
    tracked,          \* one (path, content) pair, followed through the runs
    tracked_rendered, \* a rendering that returned had the tracked pair in its batch
    \* the schema extractor (convert_all_chat.py)
    obj,              \* the decoded value handed to extract_text
    result,           \* what extract_text did with it
    \* the message aggregator and its batch driver (convert_all_chat.py)
    nDone,            \* input files the batch has been through
    batchStatus,      \* "running", or "aborted" once an error left the driver
    lastFile,         \* the input file processed last
    lastOut,          \* what processing it did
    \* the text renderer and the question index reader
    msgs,             \* the messages handed to write_messages_to_txt
    rpc,              \* "build", "written", "read"
    txt,              \* the text artifact written
    questions         \* extract_questions_from_txt of that artifact

exportVars ==
    <<files, stateFile, listdir, pc, mode, old_state, new_state,
      files_to_export, pdf_name, rendered, outcome, run0,
      clean, tracked, tracked_rendered>>

extractVars == <<obj, result>>

convertVars == <<nDone, batchStatus, lastFile, lastOut>>

renderVars == <<msgs, rpc, txt, questions>>

\* ---------------------------------------------------------- export driver

\* find_all_txt_files: the paths present, sorted.
find_all_txt_files(root) == SelectSeq(AllPaths, LAMBDA p : root[p] # "absent")

\* main, step 2: new_state[rel] = hash_file(full) for every file found.
scan_state(root) ==
    [p \in Range(find_all_txt_files(root)) |-> hash_file(root[p])]

\* The comparison of digests the wrong way round.
changed_paths_equal_digest(txt_files, old, new) ==
    SelectSeq(txt_files, LAMBDA p : p \in DOMAIN old /\ old[p] = new[p])

new_paths(txt_files, old) ==
    SelectSeq(txt_files, LAMBDA p : p \notin DOMAIN old)

changed_paths(txt_files, old, new) ==
    SelectSeq(txt_files, LAMBDA p : p \in DOMAIN old /\ old[p] # new[p])

\* sorted(set(new_paths + changed_paths))
select_files_to_export(txt_files, old, new) ==
    LET both == Range(new_paths(txt_files, old))
                    \cup Range(changed_paths(txt_files, old, new))
    IN  SelectSeq(AllPaths, LAMBDA p : p \in both)

\* The incremental driver with the full driver's test.
nothing_to_export_state_compare == new_state = old_state

\* The test that ends a run before anything is rendered.
nothing_to_export_full == new_state = old_state

nothing_to_export == files_to_export = <<>>

nothing_to_do ==
    IF mode = "incr" THEN nothing_to_export ELSE nothing_to_export_full

\* History: no pair is tracked.
NoPair == <<"none", "none">>

NoRun ==
    [files |-> [p \in Range(AllPaths) |-> "absent"], stateFile |-> NoFile,
     listdir |-> {}]

ExportInit ==
    /\ files = [p \in Range(AllPaths) |-> "absent"]
    /\ stateFile = NoFile
    /\ listdir = {}
    /\ pc = "idle"
    /\ mode = "incr"
    /\ old_state = EmptyState
    /\ new_state = EmptyState
    /\ files_to_export = <<>>
    /\ pdf_name = <<>>
    /\ rendered = FALSE
    /\ outcome = "none"
    /\ run0 = NoRun

\* The converter writes or rewrites a normalized file between two runs.
WriteTxt ==
    /\ pc = "idle"
    /\ \E p \in Range(AllPaths), c \in Contents :
           /\ files[p] # c
           /\ files' = [files EXCEPT ![p] = c]
    /\ UNCHANGED <<stateFile, listdir, pc, mode, old_state, new_state,
                   files_to_export, pdf_name, rendered, outcome, run0>>
    /\ clean' = FALSE
    /\ UNCHANGED <<tracked, tracked_rendered>>
    /\ UNCHANGED <<extractVars, convertVars, renderVars>>

\* A normalized file is removed between two runs.
RemoveTxt ==
    /\ pc = "idle"
    /\ \E p \in Range(AllPaths) :
           /\ files[p] # "absent"
           /\ files' = [files EXCEPT ![p] = "absent"]
    /\ UNCHANGED <<stateFile, listdir, pc, mode, old_state, new_state,
                   files_to_export, pdf_name, rendered, outcome, run0>>
    /\ clean' = FALSE
    /\ UNCHANGED <<tracked, tracked_rendered>>
    /\ UNCHANGED <<extractVars, convertVars, renderVars>>

\* main, steps 1 to 3: load the state, scan, select.  The full driver has no
\* selection: build_pdf renders every file found.
StartRun ==
    /\ pc = "idle"
    /\ Cardinality(listdir) < MaxFiles
    /\ \E m \in {"incr", "full"} :
           /\ mode' = m
           /\ files_to_export' =
                  IF m = "incr"
                  THEN select_files_to_export(find_all_txt_files(files),
                                              load_state(stateFile),
                                              scan_state(files))
                  ELSE find_all_txt_files(files)
    /\ old_state' = load_state(stateFile)
    /\ new_state' = scan_state(files)
    /\ pc' = "selected"
    /\ rendered' = FALSE
    /\ outcome' = "running"
    /\ run0' = [files |-> files, stateFile |-> stateFile, listdir |-> listdir]
    /\ UNCHANGED <<files, stateFile, listdir, pdf_name>>
    /\ UNCHANGED <<clean, tracked, tracked_rendered>>
    /\ UNCHANGED <<extractVars, convertVars, renderVars>>

\* main returns: nothing new or changed.
NoExport ==
    /\ pc = "selected"
    /\ nothing_to_do
    /\ pc' = "returned"
    /\ outcome' = "noop"
    /\ UNCHANGED <<files, stateFile, listdir, mode, old_state, new_state,
                   files_to_export, pdf_name, rendered, run0>>
    /\ UNCHANGED <<clean, tracked, tracked_rendered>>
    /\ UNCHANGED <<extractVars, convertVars, renderVars>>

\* main, step 4: pdf_name = get_dated_pdf_name(PDF_PREFIX)
NameArtifact ==
    /\ pc = "selected"
    /\ ~nothing_to_do
    /\ pdf_name' = get_dated_pdf_name(listdir)
    /\ pc' = "named"
    /\ UNCHANGED <<files, stateFile, listdir, mode, old_state, new_state,
                   files_to_export, rendered, outcome, run0>>
    /\ UNCHANGED <<clean, tracked, tracked_rendered>>
    /\ UNCHANGED <<extractVars, convertVars, renderVars>>

\* History: the tracked pair is in the batch being rendered, the file
\* holding the tracked content.
TrackedInBatch ==
    /\ tracked # NoPair
    /\ tracked[1] \in Range(files_to_export)
    /\ files[tracked[1]] = tracked[2]

\* main, step 5: the rendering step returns, the artifact is on disk.
\* build_pdf_for_files returns at once, with no artifact, on an empty list.
RenderOk ==
    /\ pc = "named"
    /\ listdir' = IF mode = "incr" /\ files_to_export = <<>>
                  THEN listdir
                  ELSE listdir \cup {pdf_name}
    /\ rendered' = TRUE
    /\ pc' = "rendered"
    /\ UNCHANGED <<files, stateFile, mode, old_state, new_state,
                   files_to_export, pdf_name, outcome, run0>>
    /\ tracked_rendered' = (tracked_rendered \/ TrackedInBatch)
    /\ UNCHANGED <<clean, tracked>>
    /\ UNCHANGED <<extractVars, convertVars, renderVars>>

\* A driver that goes on to save the state after the rendering step raised.
RenderFail_SavesAnyway ==
    /\ pc = "named"
    /\ \E left \in BOOLEAN :
           listdir' = IF left THEN listdir \cup {pdf_name} ELSE listdir
    /\ pc' = "rendered"
    /\ UNCHANGED <<files, stateFile, mode, old_state, new_state,
                   files_to_export, pdf_name, rendered, outcome, run0>>
    /\ UNCHANGED <<clean, tracked, tracked_rendered>>
    /\ UNCHANGED <<extractVars, convertVars, renderVars>>

\* main, step 5: the rendering step raises (reading a file, doc.build);
\* main ends there.  The output file may or may not have been created.
RenderFail ==
    /\ pc = "named"
    /\ \E left \in BOOLEAN :
           listdir' = IF left THEN listdir \cup {pdf_name} ELSE listdir
    /\ pc' = "returned"
    /\ outcome' = "render_failed"
    /\ UNCHANGED <<files, stateFile, mode, old_state, new_state,
                   files_to_export, pdf_name, rendered, run0>>
    /\ UNCHANGED <<clean, tracked, tracked_rendered>>
    /\ UNCHANGED <<extractVars, convertVars, renderVars>>

\* A driver that saves the state before it renders.
SaveOpen_BeforeRender ==
    /\ pc \in {"named", "rendered"}
    /\ stateFile' = [exists |-> TRUE, toks |-> <<>>]
    /\ pc' = "saving"
    /\ UNCHANGED <<files, listdir, mode, old_state, new_state,
                   files_to_export, pdf_name, rendered, outcome, run0>>
    /\ UNCHANGED <<clean, tracked, tracked_rendered>>
    /\ UNCHANGED <<extractVars, convertVars, renderVars>>

\* main, step 6, save_state: open(STATE_FILE, "w") truncates the file.
SaveOpen ==
    /\ pc = "rendered"
    /\ stateFile' = [exists |-> TRUE, toks |-> <<>>]
    /\ pc' = "saving"
    /\ UNCHANGED <<files, listdir, mode, old_state, new_state,
                   files_to_export, pdf_name, rendered, outcome, run0>>
    /\ UNCHANGED <<clean, tracked, tracked_rendered>>
    /\ UNCHANGED <<extractVars, convertVars, renderVars>>

\* save_state: json.dump writes the next chunk.
SaveWrite ==
    /\ pc = "saving"
    /\ Len(stateFile.toks) < Len(Serialize(new_state))
    /\ stateFile' =
           [stateFile EXCEPT
               !.toks = Append(@, Serialize(new_state)[Len(@) + 1])]
    /\ UNCHANGED <<files, listdir, pc, mode, old_state, new_state,
                   files_to_export, pdf_name, rendered, outcome, run0>>
    /\ UNCHANGED <<clean, tracked, tracked_rendered>>
    /\ UNCHANGED <<extractVars, convertVars, renderVars>>

\* save_state returns: every chunk is written, the file is closed.
SaveClose ==
    /\ pc = "saving"
    /\ stateFile.toks = Serialize(new_state)
    /\ pc' = "returned"
    /\ outcome' = "exported"
    /\ UNCHANGED <<files, stateFile, listdir, mode, old_state, new_state,
                   files_to_export, pdf_name, rendered, run0>>
    /\ clean' = TRUE
    /\ UNCHANGED <<tracked, tracked_rendered>>
    /\ UNCHANGED <<extractVars, convertVars, renderVars>>

\* save_state is cut short: a write raises (OSError) or the process is
\* interrupted; what was written stays on disk.
SaveFail ==
    /\ pc = "saving"
    /\ stateFile.toks # Serialize(new_state)
    /\ pc' = "returned"
    /\ outcome' = "save_failed"
    /\ UNCHANGED <<files, stateFile, listdir, mode, old_state, new_state,
                   files_to_export, pdf_name, rendered, run0>>
    /\ clean' = FALSE
    /\ UNCHANGED <<tracked, tracked_rendered>>
    /\ UNCHANGED <<extractVars, convertVars, renderVars>>

\* The process ends; main's locals are gone.
ProcessExit ==
    /\ pc = "returned"
    /\ pc' = "idle"
    /\ mode' = "incr"
    /\ old_state' = EmptyState
    /\ new_state' = EmptyState
    /\ files_to_export' = <<>>
    /\ pdf_name' = <<>>
    /\ rendered' = FALSE
    /\ outcome' = "none"
    /\ run0' = NoRun
    /\ UNCHANGED <<files, stateFile, listdir>>
    /\ UNCHANGED <<clean, tracked, tracked_rendered>>
    /\ UNCHANGED <<extractVars, convertVars, renderVars>>

ExportNext ==
    \/ WriteTxt
    \/ RemoveTxt
    \/ StartRun
    \/ NoExport
    \/ NameArtifact
    \/ RenderOk
    \/ RenderFail
    \/ SaveOpen
    \/ SaveWrite
    \/ SaveClose
    \/ SaveFail
    \/ ProcessExit

\* ------------------------------------------- the naming function on its own

\* Names that other programs, or earlier days, may have left in the working
\* directory.  "OTHER" is the stem of another day.
OtherNames ==
    { BasePdf,
      <<"BASE", "_", "2", ".pdf">>,
      <<"BASE", "_", "0", "3", ".pdf">>,
      <<"BASE", "_", "9", ".pdf">>,
      <<"BASE", "_", "1", "0", ".pdf">>,
      <<"BASE", "_", "2", "x", ".pdf">>,
      <<"BASE", "_", "x", ".pdf">>,
      <<"BASE", "7", ".pdf">>,
      <<"BASE", "_", "4", ".txt">>,
      <<"OTHER", ".pdf">>,
      <<"OTHER", "_", "5", ".pdf">> }

\* A file appears in the working directory.
CreateFile ==
    /\ Cardinality(listdir) < MaxFiles
    /\ \E n \in OtherNames \ listdir : listdir' = listdir \cup {n}
    /\ rendered' = FALSE
    /\ UNCHANGED <<files, stateFile, pc, mode, old_state, new_state,
                   files_to_export, pdf_name, outcome, run0>>
    /\ UNCHANGED <<clean, tracked, tracked_rendered>>
    /\ UNCHANGED <<extractVars, convertVars, renderVars>>

\* A file of the working directory is deleted.
DeleteFile ==
    /\ \E n \in listdir : listdir' = listdir \ {n}
    /\ rendered' = FALSE
    /\ UNCHANGED <<files, stateFile, pc, mode, old_state, new_state,
                   files_to_export, pdf_name, outcome, run0>>
    /\ UNCHANGED <<clean, tracked, tracked_rendered>>
    /\ UNCHANGED <<extractVars, convertVars, renderVars>>

\* A run that renders: main's steps 4 and 5, the name and the artifact.
RenderRun ==
    /\ Cardinality(listdir) < MaxFiles
    /\ name_idx(get_dated_pdf_name(listdir)) <= MaxIdx
    /\ pdf_name' = get_dated_pdf_name(listdir)
    /\ listdir' = listdir \cup {get_dated_pdf_name(listdir)}
    /\ rendered' = TRUE
    /\ run0' = [run0 EXCEPT !.listdir = listdir]
    /\ UNCHANGED <<files, stateFile, pc, mode, old_state, new_state,
                   files_to_export, outcome>>
    /\ UNCHANGED <<clean, tracked, tracked_rendered>>
    /\ UNCHANGED <<extractVars, convertVars, renderVars>>

NamingNext ==
    \/ CreateFile
    \/ DeleteFile
    \/ RenderRun

\* ------------------------------------------------------ decoded JSON values

\* What json.loads returns, tagged by its Python type.  A dict carries its
\* fields in f; a field holding Absent is a key the dict does not have.
Null == [t |-> "null"]

Absent == [t |-> "absent"]

Num == [t |-> "num"]

S(cs) == [t |-> "str", chars |-> cs]

L(xs) == [t |-> "list", items |-> xs]

D(fs) == [t |-> "dict", f |-> fs]

EmptyDict == D(<<>>)

\* "key" in d
Has(d, k) == k \in DOMAIN d.f /\ d.f[k] # Absent

\* d.get(key)
Get(d, k) == IF Has(d, k) THEN d.f[k] ELSE Null

\* d.get(key, {})
GetOrEmptyDict(d, k) == IF Has(d, k) THEN d.f[k] ELSE EmptyDict

IsSpace(c) == c \in {" ", "\n", "\r", "\t"}

\* not s.strip()
IsBlank(cs) == \A i \in 1..Len(cs) : IsSpace(cs[i])

\* isinstance(v, str) and v.strip()
IsText(v) == v.t = "str" /\ ~IsBlank(v.chars)

\* "\n\n".join(texts)
RECURSIVE Join(_)
Join(texts) ==
    IF texts = <<>> THEN <<>>
    ELSE IF Len(texts) = 1 THEN texts[1]
    ELSE texts[1] \o <<"\n", "\n">> \o Join(Tail(texts))

\* ------------------------------------------------- nested-payload resolver

\* A serialized document is a sequence of tokens: "{", "}", a key with its
\* colon ("output:"), the quote that opens and closes a string, the number
\* "1"; every other token is one character of a string.
KeyTokens == {"output:", "content:", "text:", "message:", "other:"}

KeyName(tok) ==
    CASE tok = "output:" -> "output"
      [] tok = "content:" -> "content"
      [] tok = "text:" -> "text"
      [] tok = "message:" -> "message"
      [] tok = "other:" -> "other"

ParseFailed == [ok |-> FALSE, value |-> Null]

\* The index of the first quote at or after i, 0 when there is none.
RECURSIVE ClosingQuote(_, _)
ClosingQuote(toks, i) ==
    IF i > Len(toks) THEN 0
    ELSE IF toks[i] = "\"" THEN i
    ELSE ClosingQuote(toks, i + 1)

\* The members of an object from token i on; a repeated key keeps its last
\* value.
RECURSIVE ParseMembers(_, _, _)
ParseMembers(toks, i, acc) ==
    IF i > Len(toks) THEN ParseFailed
    ELSE IF toks[i] = "}"
         THEN IF i = Len(toks) THEN [ok |-> TRUE, value |-> D(acc)]
              ELSE ParseFailed
    ELSE IF toks[i] \notin KeyTokens \/ i + 1 > Len(toks) THEN ParseFailed
    ELSE LET k == KeyName(toks[i])
             put(v) == [x \in DOMAIN acc \cup {k} |->
                           IF x = k THEN v ELSE acc[x]]
         IN  IF toks[i + 1] = "1"
             THEN ParseMembers(toks, i + 2, put(Num))
             ELSE IF toks[i + 1] = "\""
             THEN LET j == ClosingQuote(toks, i + 2)
                  IN  IF j = 0 THEN ParseFailed
                      ELSE ParseMembers(toks, j + 1,
                                        put(S(SubSeq(toks, i + 2, j - 1))))
             ELSE ParseFailed

\* json.loads of a string; ok is FALSE where it raises.
json_loads(cs) ==
    IF cs = <<"1">> THEN [ok |-> TRUE, value |-> Num]
    ELSE IF cs # <<>> /\ cs[1] = "{" THEN ParseMembers(cs, 2, <<>>)
    ELSE ParseFailed

try_parse_nested_json(s) ==
    LET nested == json_loads(s)
        keys == <<"output", "content", "text", "message">>
        hits == {i \in 1..Len(keys) :
                    /\ nested.ok
                    /\ nested.value.t = "dict"
                    /\ IsText(Get(nested.value, keys[i]))}
    IN  IF hits = {} THEN s
        ELSE Get(nested.value,
                 keys[CHOOSE i \in hits : \A j \in hits : i <= j]).chars

\* -------------------------------------------------------- schema extractor

\* json.dumps(input_obj, ensure_ascii=False, indent=2): the braces and, for
\* every key the dict has, the key, a colon and the value.
RECURSIVE dumps_members(_, _)
dumps_members(d, keys) ==
    IF keys = <<>> THEN <<>>
    ELSE LET k == keys[1]
             v == Get(d, k)
             one == IF ~Has(d, k) THEN <<>>
                    ELSE IF v.t = "str"
                         THEN <<k, ":", "\"">> \o v.chars \o <<"\"">>
                         ELSE <<k, ":", "1">>
         IN  one \o dumps_members(d, Tail(keys))

json_dumps(d) == <<"{">> \o dumps_members(d, <<"prompt", "other">>) \o <<"}">>

\* What one element of message.content adds to texts.
claude_part_texts(part) ==
    IF part.t # "dict" THEN <<>>
    ELSE IF Get(part, "type") = S(<<"text">>)
         THEN IF IsText(Get(part, "text"))
              THEN <<Get(part, "text").chars>>
              ELSE <<>>
    ELSE IF Get(part, "type") = S(<<"tool_use">>)
         THEN LET input_obj == GetOrEmptyDict(part, "input")
              IN  IF input_obj.t # "dict" THEN <<>>
                  ELSE IF IsText(Get(input_obj, "prompt"))
                       THEN <<Get(input_obj, "prompt").chars>>
                       ELSE <<json_dumps(input_obj)>>
    ELSE <<>>

RECURSIVE claude_texts(_)
claude_texts(parts) ==
    IF parts = <<>> THEN <<>>
    ELSE claude_part_texts(parts[1]) \o claude_texts(Tail(parts))

extract_from_claude_message(msg) ==
    LET role == Get(msg, "role")
        content == Get(msg, "content")
        texts == IF content.t = "list" THEN claude_texts(content.items)
                 ELSE IF content.t = "str" /\ ~IsBlank(content.chars)
                      THEN <<content.chars>>
                 ELSE <<>>
    IN  [role |-> role, text |-> Join(texts)]

RECURSIVE gemini_texts(_)
gemini_texts(parts) ==
    IF parts = <<>> THEN <<>>
    ELSE (IF parts[1].t = "dict" /\ IsText(Get(parts[1], "text"))
          THEN <<Get(parts[1], "text").chars>>
          ELSE <<>>) \o gemini_texts(Tail(parts))

extract_from_gemini_message(o) ==
    LET role == Get(o, "role")
        parts == Get(o, "parts")
        texts == IF parts.t = "list" THEN gemini_texts(parts.items) ELSE <<>>
    IN  [role |-> role, text |-> Join(texts)]

Miss == [hit |-> FALSE, role |-> Null, text |-> <<>>]

Hit(role, text) == [hit |-> TRUE, role |-> role, text |-> text]

\* The first of keys whose value in d is a non-blank string, 0 when none.
FirstText(d, keys) ==
    LET hits == {i \in 1..Len(keys) : IsText(Get(d, keys[i]))}
    IN  IF hits = {} THEN 0 ELSE CHOOSE i \in hits : \A j \in hits : i <= j

\* extract_text, step 1: a nested message.
try_message(o) ==
    LET msg == Get(o, "message")
        r == extract_from_claude_message(msg)
    IN  IF msg.t = "dict" /\ ~IsBlank(r.text) THEN Hit(r.role, r.text)
        ELSE Miss

\* extract_text, step 2: top-level role and parts.
try_role_parts(o) ==
    LET r == extract_from_gemini_message(o)
    IN  IF Get(o, "parts").t = "list" /\ Has(o, "role") /\ ~IsBlank(r.text)
        THEN Hit(r.role, r.text)
        ELSE Miss

\* extract_text, step 3: top-level content or text.
try_content(o) ==
    LET keys == <<"content", "text">>
        i == FirstText(o, keys)
    IN  IF i = 0 THEN Miss ELSE Hit(Get(o, "role"), Get(o, keys[i]).chars)

\* extract_text, step 4: the payload.
try_payload(o) ==
    LET payload == Get(o, "payload")
        keys == <<"content", "text", "message">>
    IN  IF payload.t # "dict" THEN Miss
        ELSE IF FirstText(payload, keys) # 0
             THEN Hit(Get(o, "role"),
                      Get(payload, keys[FirstText(payload, keys)]).chars)
        ELSE IF IsText(Get(payload, "output"))
             THEN Hit(Get(o, "role"),
                      try_parse_nested_json(Get(payload, "output").chars))
        ELSE Miss

Raised(exc) == [status |-> "raised", exc |-> exc]

Ok(role, text) == [status |-> "ok", role |-> role, text |-> text]

\* The shapes tried in another order: top-level content before the rest.
extract_text_content_first(o) ==
    IF o.t # "dict" THEN Raised("AttributeError")
    ELSE IF try_content(o).hit
         THEN Ok(try_content(o).role, try_content(o).text)
    ELSE IF try_message(o).hit
         THEN Ok(try_message(o).role, try_message(o).text)
    ELSE IF try_role_parts(o).hit
         THEN Ok(try_role_parts(o).role, try_role_parts(o).text)
    ELSE IF try_payload(o).hit
         THEN Ok(try_payload(o).role, try_payload(o).text)
    ELSE Ok(Get(o, "role"), <<>>)

\* obj.get raises AttributeError on a value that is no dict.
extract_text(o) ==
    IF o.t # "dict" THEN Raised("AttributeError")
    ELSE IF try_message(o).hit
         THEN Ok(try_message(o).role, try_message(o).text)
    ELSE IF try_role_parts(o).hit
         THEN Ok(try_role_parts(o).role, try_role_parts(o).text)
    ELSE IF try_content(o).hit
         THEN Ok(try_content(o).role, try_content(o).text)
    ELSE IF try_payload(o).hit
         THEN Ok(try_payload(o).role, try_payload(o).text)
    ELSE Ok(Get(o, "role"), <<>>)

\* ------------------------------------------------- the records of the model

TextPart(cs) == D([type |-> S(<<"text">>), text |-> S(cs)])

ToolUse(input) == D([type |-> S(<<"tool_use">>), input |-> input])

\* message.content
MessageContents ==
    { Absent, S(<<>>), S(<<" ">>), S(<<"m">>),
      L(<<>>),
      L(<<TextPart(<<"m">>)>>),
      L(<<TextPart(<<" ">>)>>),
      L(<<Num, TextPart(<<"m">>), TextPart(<<"n">>)>>),
      L(<<ToolUse(D([prompt |-> S(<<"p">>)]))>>),
      L(<<ToolUse(D([other |-> Num]))>>),
      L(<<ToolUse(Absent)>>),
      L(<<ToolUse(Null)>>) }

\* obj["message"]
MessageValues ==
    {Absent, Null, S(<<"m">>)}
        \cup {D([role |-> S(<<"assistant">>), content |-> c]) :
                 c \in MessageContents}
        \cup {D([role |-> Absent, content |-> S(<<"m">>)])}

\* obj["role"]
RoleValues == {Absent, Null, S(<<"user">>), Num}

\* obj["parts"]
PartsValues ==
    { Absent, S(<<"g">>), L(<<>>),
      L(<<D([text |-> S(<<"g">>)])>>),
      L(<<D([text |-> S(<<" ">>)])>>),
      L(<<Num, D([text |-> S(<<"g">>)]), D([text |-> S(<<"h">>)])>>) }

\* obj["content"]
ContentValues == {Absent, S(<<" ">>), S(<<"c">>), Num}

\* obj["text"]
TextValues == {Absent, S(<<"t">>)}

\* payload["output"]: plain text, blank text, a number, a serialized
\* document, a document cut short.
OutputStrings ==
    { <<"o">>, <<" ">>, <<"1">>,
      <<"{", "output:", "\"", "D", "\"", "}">>,
      <<"{", "text:", "\"", "T", "\"", "output:", "\"", "O", "\"", "}">>,
      <<"{", "output:", "\"", " ", "\"", "content:", "\"", "C", "\"", "}">>,
      <<"{", "output:", "1", "message:", "\"", "M", "\"", "}">>,
      <<"{", "other:", "\"", "x", "\"", "}">>,
      <<"{", "output:", "\"", "D">> }

\* obj["payload"]
PayloadValues ==
    { Absent, S(<<"p">>),
      D([content |-> S(<<"k">>)]),
      D([text |-> S(<<" ">>), message |-> S(<<"q">>)]),
      D([output |-> Num]) }
        \cup {D([output |-> S(cs)]) : cs \in OutputStrings}

\* The records: every combination of the six fields extract_text reads.
Records ==
    { D(fs) : fs \in [message : MessageValues, role : RoleValues,
                      parts : PartsValues, content : ContentValues,
                      text : TextValues, payload : PayloadValues] }

\* Decoded values that are no mapping.
NonMappings == {Null, Num, S(<<"s">>), L(<<>>)}

Decoded == Records \cup NonMappings

\* ----------------------------------------------------- the extractor, run

NotExtracted == [status |-> "none"]

ExtractIdle == obj = Null /\ result = NotExtracted

ExtractInit == obj \in Decoded /\ result = NotExtracted

\* process_jsonl_file / process_json_file call extract_text on the value.
Extract ==
    /\ result = NotExtracted
    /\ result' = extract_text(obj)
    /\ UNCHANGED <<obj, exportVars, convertVars, renderVars>>

ExtractNext == Extract

\* ----------------------------------------------------------- text renderer

\* In a text artifact "E" is the three characters "===", "Q" the rest of
\* the prefix "============ 问题索引" after them, "R" the rest of the start
\* marker's line and "F" the rest of the end marker's line.  A speaker is
\* one token ("user", "User", "assistant").
StartMarker == <<"E", "Q", "R">>

EndMarker == <<"E", "F">>

LowerTok(c) ==
    CASE c \in {"user", "User", "USER"} -> "user"
      [] c \in {"assistant", "ASSISTANT"} -> "assistant"
      [] OTHER -> c

UpperTok(c) ==
    CASE c \in {"user", "User", "USER"} -> "USER"
      [] c \in {"assistant", "ASSISTANT"} -> "ASSISTANT"
      [] OTHER -> c

lower(cs) == [i \in 1..Len(cs) |-> LowerTok(cs[i])]

upper(cs) == [i \in 1..Len(cs) |-> UpperTok(cs[i])]

RECURSIVE lstrip(_)
lstrip(cs) == IF cs # <<>> /\ IsSpace(cs[1]) THEN lstrip(Tail(cs)) ELSE cs

RECURSIVE rstrip(_)
rstrip(cs) ==
    IF cs # <<>> /\ IsSpace(cs[Len(cs)])
    THEN rstrip(SubSeq(cs, 1, Len(cs) - 1))
    ELSE cs

strip(cs) == rstrip(lstrip(cs))

\* cs.split("\n")[0]
RECURSIVE first_of_split(_)
first_of_split(cs) ==
    IF cs = <<>> \/ cs[1] = "\n" THEN <<>>
    ELSE <<cs[1]>> \o first_of_split(Tail(cs))

\* if role: the truth value of a decoded value (the number of the model is 1).
Truthy(v) ==
    CASE v.t = "null" -> FALSE
      [] v.t = "str" -> v.chars # <<>>
      [] v.t = "num" -> TRUE
      [] v.t = "list" -> v.items # <<>>
      [] v.t = "dict" -> \E k \in DOMAIN v.f : v.f[k] # Absent

\* role and isinstance(role, str) and role.lower() == "user"
IsUser(role) == Truthy(role) /\ role.t = "str" /\ lower(role.chars) = <<"user">>

\* The questions write_messages_to_txt collects.
RECURSIVE collect_questions(_)
collect_questions(messages) ==
    IF messages = <<>> THEN <<>>
    ELSE LET first_line == first_of_split(strip(messages[1].text))
         IN  (IF IsUser(messages[1].role) /\ first_line # <<>>
              THEN <<first_line>>
              ELSE <<>>) \o collect_questions(Tail(messages))

\* The index block: the start marker, f"{i}. {q}\n" per question, the end
\* marker and two empty lines.
RECURSIVE index_lines(_, _)
index_lines(qs, i) ==
    IF i > Len(qs) THEN <<>>
    ELSE str(i) \o <<".", " ">> \o qs[i] \o <<"\n">> \o index_lines(qs, i + 1)

index_block(qs) ==
    IF qs = <<>> THEN <<>>
    ELSE StartMarker \o <<"\n">> \o index_lines(qs, 1)
             \o EndMarker \o <<"\n", "\n", "\n">>

\* The body: the messages written one after the other, up to the first whose
\* role is true and has no upper(); out is what reached the file.
RECURSIVE write_body(_, _)
write_body(messages, out) ==
    IF messages = <<>> THEN [status |-> "ok", text |-> out]
    ELSE LET role == messages[1].role
             text == messages[1].text
         IN  IF ~Truthy(role)
             THEN write_body(Tail(messages), out \o text \o <<"\n", "\n">>)
             ELSE IF role.t # "str"
             THEN [status |-> "raised", text |-> out]
             ELSE write_body(Tail(messages),
                             out \o upper(role.chars) \o <<":", "\n">>
                                 \o text \o <<"\n", "\n">>)

write_messages_to_txt(messages) ==
    write_body(messages, index_block(collect_questions(messages)))

\* ------------------------------------------------------ question index reader

\* content.splitlines(): the lines, without their line ends.
RECURSIVE splitlines(_, _)
splitlines(cs, line) ==
    IF cs = <<>> THEN (IF line = <<>> THEN <<>> ELSE <<line>>)
    ELSE IF cs[1] = "\n" THEN <<line>> \o splitlines(Tail(cs), <<>>)
    ELSE splitlines(Tail(cs), Append(line, cs[1]))

\* line.startswith("============ 问题索引")
starts_index(line) == Len(line) >= 2 /\ line[1] = "E" /\ line[2] = "Q"

\* line.startswith("===")
starts_rule(line) == Len(line) >= 1 /\ line[1] = "E"

\* re.match(r"\s*(\d+)\.\s*(.+)", line), then group(2).strip(): the empty
\* sequence when the line does not match or the group strips to nothing.
index_entry(line) ==
    LET a == lstrip(line)
        ds == DigitRun(a)
        b == SubSeq(a, Len(ds) + 1, Len(a))
    IN  IF ds = <<>> \/ b = <<>> \/ b[1] # "." THEN <<>>
        ELSE strip(Tail(b))

RECURSIVE scan_lines(_, _, _)
scan_lines(lines, in_index, qs) ==
    IF lines = <<>> THEN qs
    ELSE IF starts_index(lines[1]) THEN scan_lines(Tail(lines), TRUE, qs)
    ELSE IF in_index /\ starts_rule(lines[1]) THEN qs
    ELSE IF in_index /\ index_entry(lines[1]) # <<>>
         THEN scan_lines(Tail(lines), in_index, Append(qs, index_entry(lines[1])))
    ELSE scan_lines(Tail(lines), in_index, qs)

extract_questions_from_txt(content) ==
    scan_lines(splitlines(content, <<>>), FALSE, <<>>)

\* -------------------------------------------------------- message aggregator

Outcome(status, objs, messages, wrote, text) ==
    [status |-> status, objs |-> objs, messages |-> messages,
     wrote |-> wrote, txt |-> text]

\* The end of both process functions: write_messages_to_txt(messages, txt_path).
write_out(objs, messages) ==
    LET w == write_messages_to_txt(messages)
    IN  Outcome(w.status, objs, messages, TRUE, w.text)

\* process_jsonl_file's loop from line i on.  A line is blank, or text
\* json.loads raises on ("garbage"), or the text of the value it carries.
RECURSIVE jsonl_lines(_, _, _, _)
jsonl_lines(lines, i, objs, messages) ==
    IF i > Len(lines) THEN write_out(objs, messages)
    ELSE IF lines[i].kind \in {"blank", "garbage"}
         THEN jsonl_lines(lines, i + 1, objs, messages)
    ELSE LET r == extract_text(lines[i].value)
         IN  IF r.status = "raised"
             THEN Outcome("raised", Append(objs, lines[i].value), messages,
                          FALSE, <<>>)
             ELSE IF IsBlank(r.text)
             THEN jsonl_lines(lines, i + 1, Append(objs, lines[i].value),
                              messages)
             ELSE jsonl_lines(lines, i + 1, Append(objs, lines[i].value),
                              Append(messages, [role |-> r.role, text |-> r.text]))

\* Reading the lines of a file that is not UTF-8 raises UnicodeDecodeError.
process_jsonl_file(file) ==
    IF file.undecodable THEN Outcome("raised", <<>>, <<>>, FALSE, <<>>)
    ELSE jsonl_lines(file.lines, 1, <<>>, <<>>)

\* [x for x in val if isinstance(x, dict)]
only_dicts(xs) == SelectSeq(xs, LAMBDA x : x.t = "dict")

ListKeys == <<"history", "contents", "messages", "conversation", "items">>

\* The first of ListKeys whose value in data is a list, 0 when there is none.
first_list_key(data) ==
    LET hits == {i \in 1..Len(ListKeys) : Get(data, ListKeys[i]).t = "list"}
    IN  IF hits = {} THEN 0 ELSE CHOOSE i \in hits : \A j \in hits : i <= j

select_objs(data) ==
    IF data.t = "list" THEN only_dicts(data.items)
    ELSE IF data.t = "dict"
         THEN LET k == first_list_key(data)
                  found == IF k = 0 THEN <<>>
                           ELSE only_dicts(Get(data, ListKeys[k]).items)
              IN  IF found = <<>> THEN <<data>> ELSE found
    ELSE <<>>

\* The messages of obj["candidates"]: candidates[*].content, extracted.
RECURSIVE candidate_messages(_)
candidate_messages(cands) ==
    IF cands = <<>> THEN <<>>
    ELSE LET content == IF cands[1].t = "dict"
                        THEN Get(cands[1], "content")
                        ELSE Null
             r == extract_text(content)
         IN  (IF content.t = "dict" /\ ~IsBlank(r.text)
              THEN <<[role |-> r.role, text |-> r.text]>>
              ELSE <<>>) \o candidate_messages(Tail(cands))

\* The loop over objs putting each record's messages before the earlier ones.
RECURSIVE json_messages_newest_first(_)
json_messages_newest_first(objs) ==
    IF objs = <<>> THEN <<>>
    ELSE LET o == objs[1]
             r == extract_text(o)
         IN  json_messages_newest_first(Tail(objs)) \o
             (IF Get(o, "candidates").t = "list"
              THEN candidate_messages(Get(o, "candidates").items)
              ELSE IF ~IsBlank(r.text)
                   THEN <<[role |-> r.role, text |-> r.text]>>
                   ELSE <<>>)

\* process_json_file's loop over objs; every element of objs is a dict.
RECURSIVE json_messages(_)
json_messages(objs) ==
    IF objs = <<>> THEN <<>>
    ELSE LET o == objs[1]
             r == extract_text(o)
         IN  (IF Get(o, "candidates").t = "list"
              THEN candidate_messages(Get(o, "candidates").items)
              ELSE IF ~IsBlank(r.text)
                   THEN <<[role |-> r.role, text |-> r.text]>>
                   ELSE <<>>) \o json_messages(Tail(objs))

\* json.load raises on bytes that are not UTF-8 and on a syntax error; the
\* function returns there and writes nothing.
process_json_file(file) ==
    IF file.undecodable \/ file.syntax_error
    THEN Outcome("ok", <<>>, <<>>, FALSE, <<>>)
    ELSE write_out(select_objs(file.data), json_messages(select_objs(file.data)))

\* ---------------------------------------------------- the batch, its inputs

\* The decoded values an input line or a list element may carry.
LineValues ==
    { D([role |-> S(<<"user">>), content |-> S(<<"c">>)]),
      D([role |-> S(<<"user">>)]),
      D([role |-> Num, content |-> S(<<"c">>)]),
      D([message |-> D([role |-> S(<<"assistant">>), content |-> S(<<"m">>)])]),
      D([candidates |->
            L(<<Num,
                D([content |-> D([role |-> S(<<"model">>),
                                  parts |-> L(<<D([text |-> S(<<"g">>)])>>)])]),
                D([content |-> D([role |-> S(<<"model">>)])])>>)]),
      Num,
      L(<<>>) }

InputLines ==
    {[kind |-> "blank", value |-> Null], [kind |-> "garbage", value |-> Null]}
        \cup {[kind |-> "json", value |-> v] : v \in LineValues}

RECURSIVE SeqsUpTo(_, _)
SeqsUpTo(Xs, n) ==
    IF n = 0 THEN {<<>>}
    ELSE SeqsUpTo(Xs, n - 1)
             \cup {Append(q, x) :
                      q \in {r \in SeqsUpTo(Xs, n - 1) : Len(r) = n - 1},
                      x \in Xs}

JsonlFiles ==
    {[kind |-> "jsonl", undecodable |-> TRUE, lines |-> <<>>]}
        \cup {[kind |-> "jsonl", undecodable |-> FALSE, lines |-> ls] :
                 ls \in SeqsUpTo(InputLines, MaxLines)}

\* What one of the five list fields of a top-level mapping may hold.
ListFieldValues ==
    { Absent, S(<<"x">>), L(<<>>), L(<<Num>>),
      L(<<D([role |-> S(<<"user">>), content |-> S(<<"c">>)])>>) }

TopLevelMappings ==
    { D(fs) : fs \in [history : ListFieldValues, contents : ListFieldValues,
                      messages : ListFieldValues,
                      conversation : ListFieldValues, items : ListFieldValues,
                      role : {Absent, S(<<"user">>)},
                      content : {Absent, S(<<"w">>)}] }

JsonDocs ==
    {Num} \cup {L(xs) : xs \in SeqsUpTo(LineValues, MaxLines)}
          \cup TopLevelMappings

JsonFiles ==
    { [kind |-> "json", undecodable |-> TRUE, syntax_error |-> FALSE,
       data |-> Null],
      [kind |-> "json", undecodable |-> FALSE, syntax_error |-> TRUE,
       data |-> Null] }
        \cup {[kind |-> "json", undecodable |-> FALSE, syntax_error |-> FALSE,
               data |-> d] : d \in JsonDocs}

NoInput == [kind |-> "none"]

NoOutcome == [status |-> "none"]

ConvertIdle ==
    /\ nDone = 0
    /\ batchStatus = "running"
    /\ lastFile = NoInput
    /\ lastOut = NoOutcome

\* convert_one_source_dir, one turn of its loop on a .jsonl file.  An error
\* process_jsonl_file raises leaves the loop and the driver.
ConvertJsonl ==
    /\ batchStatus = "running"
    /\ lastFile = NoInput
    /\ nDone < MaxBatch
    /\ \E file \in JsonlFiles :
           /\ lastFile' = file
           /\ lastOut' = process_jsonl_file(file)
           /\ batchStatus' = IF process_jsonl_file(file).status = "raised"
                             THEN "aborted"
                             ELSE "running"
    /\ nDone' = nDone + 1
    /\ UNCHANGED <<exportVars, extractVars, renderVars>>

\* convert_one_source_dir, one turn of its loop on a .json file.
ConvertJson ==
    /\ batchStatus = "running"
    /\ lastFile = NoInput
    /\ nDone < MaxBatch
    /\ \E file \in JsonFiles :
           /\ lastFile' = file
           /\ lastOut' = process_json_file(file)
           /\ batchStatus' = IF process_json_file(file).status = "raised"
                             THEN "aborted"
                             ELSE "running"
    /\ nDone' = nDone + 1
    /\ UNCHANGED <<exportVars, extractVars, renderVars>>

\* The loop goes on to the next file of the walk.
NextInput ==
    /\ batchStatus = "running"
    /\ lastFile # NoInput
    /\ lastFile' = NoInput
    /\ lastOut' = NoOutcome
    /\ UNCHANGED <<nDone, batchStatus, exportVars, extractVars, renderVars>>

ConvertNext ==
    \/ ConvertJsonl
    \/ ConvertJson
    \/ NextInput

\* ------------------------------------------- the renderer and the reader, run

\* The lines a message text is made of.
TextLines ==
    { <<"a">>, <<"b", " ">>, <<>>, <<"E", "Q">>, <<"E">>,
      <<"1", ".", " ", "f">> }

RECURSIVE TextsUpTo(_)
TextsUpTo(n) ==
    IF n = 1 THEN TextLines
    ELSE TextsUpTo(n - 1)
             \cup {t \o <<"\n">> \o l : t \in TextsUpTo(n - 1), l \in TextLines}

\* The aggregator keeps a message only when its text is not blank.
MessageTexts == {t \in TextsUpTo(MaxTextLines) : ~IsBlank(t)}

Speakers == {Null, S(<<"User">>), S(<<"assistant">>)}

RenderIdle ==
    /\ msgs = <<>>
    /\ rpc = "build"
    /\ txt = <<>>
    /\ questions = <<>>

\* The aggregator appends one more message.
AddMessage ==
    /\ rpc = "build"
    /\ Len(msgs) < MaxMsgs
    /\ \E role \in Speakers, text \in MessageTexts :
           msgs' = Append(msgs, [role |-> role, text |-> text])
    /\ UNCHANGED <<rpc, txt, questions, exportVars, extractVars, convertVars>>

\* write_messages_to_txt(messages, txt_path)
WriteMessages ==
    /\ rpc = "build"
    /\ txt' = write_messages_to_txt(msgs).text
    /\ rpc' = "written"
    /\ UNCHANGED <<msgs, questions, exportVars, extractVars, convertVars>>

\* The export reads the artifact: extract_questions_from_txt(content)
ReadQuestions ==
    /\ rpc = "written"
    /\ questions' = extract_questions_from_txt(txt)
    /\ rpc' = "read"
    /\ UNCHANGED <<msgs, txt, exportVars, extractVars, convertVars>>

RenderNext ==
    \/ AddMessage
    \/ WriteMessages
    \/ ReadQuestions

\* ----------------------------------------------------------- specifications

vars == <<exportVars, extractVars, convertVars, renderVars>>

\* History: nothing saved, nothing rendered, no pair tracked.
NoHistory == clean = FALSE /\ tracked = NoPair /\ tracked_rendered = FALSE

\* History: nothing saved, nothing rendered, any one pair tracked.
TrackHistory ==
    /\ clean = FALSE
    /\ tracked \in Range(AllPaths) \X Contents
    /\ tracked_rendered = FALSE

IdleInit == ExportInit /\ NoHistory /\ ExtractIdle /\ ConvertIdle /\ RenderIdle

PickInit == ExportInit /\ NoHistory /\ ExtractInit /\ ConvertIdle /\ RenderIdle

TrackInit ==
    ExportInit /\ TrackHistory /\ ExtractIdle /\ ConvertIdle /\ RenderIdle

SpecExport == IdleInit /\ [][ExportNext]_vars

\* The export drivers with one pair of path and content followed.
SpecHistory == TrackInit /\ [][ExportNext]_vars

SpecNaming == IdleInit /\ [][NamingNext]_vars

SpecExtract == PickInit /\ [][ExtractNext]_vars

SpecConvert == IdleInit /\ [][ConvertNext]_vars

SpecRender == IdleInit /\ [][RenderNext]_vars

\* ------------------------------------------------------------------ claims

\* The previous ChangeSet of the run in progress: what load returned.
PrevChangeSet == load_state(run0.stateFile)

\* The current scan of the run in progress: the paths found and their digests.
ScanPaths == {p \in Range(AllPaths) : run0.files[p] # "absent"}

ScanDigest(p) == hash_file(run0.files[p])

\* The ExportBatch of incremental mode, as the specification words it.
NewOrModified ==
    {p \in ScanPaths :
        p \notin DOMAIN PrevChangeSet \/ PrevChangeSet[p] # ScanDigest(p)}

\* C1: in the incremental driver the batch is exactly the scanned paths that
\* are new (absent from the previous ChangeSet) or modified (present with a
\* different digest); a removed path and an unchanged path are never in it.
C1_BatchIsNewOrModified ==
    (pc # "idle" /\ mode = "incr") =>
        /\ Range(files_to_export) = NewOrModified
        /\ Len(files_to_export) = Cardinality(NewOrModified)
        /\ \A p \in DOMAIN PrevChangeSet \ ScanPaths :
               p \notin Range(files_to_export)
        /\ \A p \in ScanPaths \cap DOMAIN PrevChangeSet :
               PrevChangeSet[p] = ScanDigest(p) => p \notin Range(files_to_export)

\* A run that meets a modified, an unchanged and a removed path at once.
C1_Witness ==
    /\ pc = "selected"
    /\ mode = "incr"
    /\ \E p \in Range(files_to_export) :
           p \in DOMAIN PrevChangeSet /\ PrevChangeSet[p] # ScanDigest(p)
    /\ \E p \in ScanPaths \ Range(files_to_export) :
           PrevChangeSet[p] = ScanDigest(p)
    /\ \E p \in DOMAIN PrevChangeSet : p \notin ScanPaths

\* C2: in either driver the persisted ChangeSet changes only once the
\* rendering step of the run has returned; when rendering raises, the
\* persisted ChangeSet is the one the run started with, and a next run on
\* the same files selects the same batch again.
C2_SaveOnlyAfterRender ==
    /\ (pc # "idle" /\ stateFile # run0.stateFile) => rendered
    /\ (pc = "returned" /\ outcome = "render_failed") =>
           /\ stateFile = run0.stateFile
           /\ load_state(stateFile) = old_state
           /\ files = run0.files
           /\ files_to_export =
                  IF mode = "incr"
                  THEN select_files_to_export(find_all_txt_files(files),
                                              load_state(stateFile),
                                              scan_state(files))
                  ELSE find_all_txt_files(files)

\* A run whose rendering raised, with a batch and an earlier persisted state.
C2_Witness ==
    /\ pc = "returned"
    /\ outcome = "render_failed"
    /\ files_to_export # <<>>
    /\ DOMAIN load_state(stateFile) # {}

\* C3: an incremental run whose batch is empty renders nothing, creates no
\* artifact and leaves the persisted ChangeSet as it was.
C3_EmptyBatchIsNoOp ==
    (pc # "idle" /\ mode = "incr" /\ NewOrModified = {}) =>
        /\ ~rendered
        /\ pc \in {"selected", "returned"}
        /\ pc = "returned" => outcome = "noop"
        /\ listdir = run0.listdir
        /\ stateFile = run0.stateFile

\* An incremental run that ended with nothing to do although a path of the
\* previous ChangeSet is gone.
C3_Witness ==
    /\ pc = "returned"
    /\ mode = "incr"
    /\ outcome = "noop"
    /\ \E p \in DOMAIN PrevChangeSet : p \notin ScanPaths

\* C4: whatever the working directory holds, the name the naming function
\* returns is not the name of an entry, so a run that renders adds a file
\* and leaves every earlier entry in place.
C4_NameIsFresh ==
    /\ get_dated_pdf_name(listdir) \notin listdir
    /\ rendered =>
           /\ pdf_name \notin run0.listdir
           /\ listdir = run0.listdir \cup {pdf_name}

\* A run that rendered beside the unsuffixed artifact while the artifact
\* numbered 2 is missing: the numbers have a gap.
C4_Witness ==
    /\ rendered
    /\ BasePdf \in run0.listdir
    /\ <<"BASE", "_", "2", ".pdf">> \notin listdir
    /\ name_idx(pdf_name) >= 3

\* C5: at every point of a run the state load reads back is the complete
\* previous mapping or the complete new mapping.
C5_SaveIsAtomic ==
    pc # "idle" =>
        \/ load_state(stateFile) = PrevChangeSet
        \/ load_state(stateFile) = new_state

\* C6: extract never raises, whatever the decoded value, and a value that is
\* no mapping yields (None, "").
C6_ExtractNeverFails ==
    result # NotExtracted =>
        /\ result.status = "ok"
        /\ obj.t # "dict" => result = Ok(Null, <<>>)

\* C7: no input file makes the batch driver stop: processing it returns
\* without an error.
C7_BadFileNeverAborts ==
    /\ batchStatus # "aborted"
    /\ lastOut # NoOutcome => lastOut.status # "raised"

\* The first line of a message text, without the blank space around it.
FirstLine(text) == strip(first_of_split(strip(text)))

RECURSIVE UserFirstLines(_)
UserFirstLines(messages) ==
    IF messages = <<>> THEN <<>>
    ELSE (IF messages[1].role.t = "str"
              /\ lower(messages[1].role.chars) = <<"user">>
          THEN <<FirstLine(messages[1].text)>>
          ELSE <<>>) \o UserFirstLines(Tail(messages))

\* C8: the questions read back from the rendered text are the first lines
\* of the messages whose speaker is "user", in order, and none when there
\* is no such message.
C8_QuestionIndexRoundTrip ==
    rpc = "read" => questions = UserFirstLines(msgs)

\* What each shape yields on a record, in the order of the specification.
ShapeYields(o) ==
    <<try_message(o), try_role_parts(o), try_content(o), try_payload(o)>>

YieldingShapes(o) == {k \in 1..4 : ~IsBlank(ShapeYields(o)[k].text)}

\* C9: extract returns what the first shape that yields non-blank text
\* yields, in the order nested message, role and parts, role and content,
\* payload; a shape that yields blank text does not stop the search.
C9_FirstYieldingShapeWins ==
    (result # NotExtracted /\ obj.t = "dict") =>
        LET ys == ShapeYields(obj)
            hits == {k \in 1..4 : ~IsBlank(ys[k].text)}
            first == CHOOSE i \in hits : \A j \in hits : i <= j
        IN  IF hits = {}
            THEN result = Ok(Get(obj, "role"), <<>>)
            ELSE result = Ok(ys[first].role, ys[first].text)

\* A record with a nested message that yields nothing, a parts list that
\* yields nothing, and a text taken from a later shape.
C9_Witness ==
    /\ result # NotExtracted
    /\ obj.t = "dict"
    /\ Get(obj, "message").t = "dict"
    /\ Get(obj, "parts").t = "list" /\ Has(obj, "role")
    /\ YieldingShapes(obj) # {}
    /\ \A k \in YieldingShapes(obj) : k >= 3
    /\ ~IsBlank(result.text)

\* C10: for a top-level mapping the records are the elements of the first
\* list-valued field among the five, and the mapping itself is the one
\* record exactly when none of the five holds a list.
C10_FirstListField ==
    (lastFile.kind = "json" /\ ~lastFile.undecodable /\ ~lastFile.syntax_error
        /\ lastFile.data.t = "dict") =>
        lastOut.objs =
            IF first_list_key(lastFile.data) = 0 THEN <<lastFile.data>>
            ELSE only_dicts(
                     Get(lastFile.data,
                         ListKeys[first_list_key(lastFile.data)]).items)

\* The same-day artifacts of the working directory: the names with today's
\* stem and the extension.
SameDayArtifacts == {f \in listdir : startswith_base(f) /\ endswith_pdf(f)}

\* The largest number among the same-day artifacts, the unsuffixed one
\* counting as 1.
MaxSuffix == SetMax({1} \cup {name_idx(f) : f \in SameDayArtifacts})

Suffixed(n) == <<"BASE", "_">> \o str(n) \o <<".pdf">>

\* C11 as stated: the unsuffixed name when no same-day artifact exists,
\* otherwise the stem with max+1, and the suffix 2 beside one unsuffixed
\* artifact.
C11_SuffixWheneverStemExists ==
    /\ SameDayArtifacts = {} => get_dated_pdf_name(listdir) = BasePdf
    /\ SameDayArtifacts # {} =>
           get_dated_pdf_name(listdir) = Suffixed(MaxSuffix + 1)
    /\ SameDayArtifacts = {BasePdf} =>
           get_dated_pdf_name(listdir) = Suffixed(2)

\* C11, amended: the naming function returns the unsuffixed name whenever
\* the unsuffixed artifact does not exist, suffixed same-day artifacts or
\* not; when it exists the name is the stem with max+1, which is 2 beside
\* the unsuffixed artifact alone, and a run that renders is named so.
C11_UnsuffixedUnlessTaken ==
    /\ BasePdf \notin listdir => get_dated_pdf_name(listdir) = BasePdf
    /\ BasePdf \in listdir =>
           /\ get_dated_pdf_name(listdir) = Suffixed(MaxSuffix + 1)
           /\ \A f \in SameDayArtifacts :
                  name_idx(f) < name_idx(get_dated_pdf_name(listdir))
           /\ \E f \in SameDayArtifacts :
                  name_idx(f) + 1 = name_idx(get_dated_pdf_name(listdir))
    /\ SameDayArtifacts = {BasePdf} =>
           get_dated_pdf_name(listdir) = Suffixed(2)
    /\ rendered =>
           pdf_name = IF BasePdf \in run0.listdir
                      THEN Suffixed(name_idx(pdf_name))
                      ELSE BasePdf

\* A run that rendered under the unsuffixed name while a suffixed same-day
\* artifact was there, and is still there.
C11_Witness ==
    /\ rendered
    /\ pdf_name = BasePdf
    /\ \E f \in run0.listdir :
           /\ startswith_base(f) /\ endswith_pdf(f)
           /\ name_idx(f) >= 2
           /\ f \in listdir

\* The records of obj["candidates"] handed to extract_text: the content of
\* each candidate, where candidate and content are mappings.
RECURSIVE candidate_records(_)
candidate_records(cands) ==
    IF cands = <<>> THEN <<>>
    ELSE (IF cands[1].t = "dict" /\ Get(cands[1], "content").t = "dict"
          THEN <<Get(cands[1], "content")>>
          ELSE <<>>) \o candidate_records(Tail(cands))

\* The records of a document handed to extract_text, in source order: each
\* selected object, or the contents of its candidates when it has some.
RECURSIVE json_records(_)
json_records(objs) ==
    IF objs = <<>> THEN <<>>
    ELSE (IF Get(objs[1], "candidates").t = "list"
          THEN candidate_records(Get(objs[1], "candidates").items)
          ELSE <<objs[1]>>) \o json_records(Tail(objs))

\* The records of a line-delimited file handed to extract_text, in line
\* order: the values of the lines that parse, up to the first one extract
\* raises on, where the function is left.
jsonl_records(lines) ==
    LET parsed == SelectSeq(lines, LAMBDA l : l.kind = "json")
        bad == {i \in 1..Len(parsed) :
                   extract_text(parsed[i].value).status = "raised"}
        last == IF bad = {} THEN Len(parsed)
                ELSE (CHOOSE i \in bad : \A j \in bad : i <= j) - 1
    IN  [i \in 1..last |-> parsed[i].value]

\* The records extract was applied to while the last file was processed.
ExtractedRecords ==
    IF lastFile.kind = "jsonl"
    THEN (IF lastFile.undecodable THEN <<>> ELSE jsonl_records(lastFile.lines))
    ELSE IF lastFile.undecodable \/ lastFile.syntax_error THEN <<>>
    ELSE json_records(select_objs(lastFile.data))

\* The extracted records whose text is not blank, as messages, in order.
NonBlankExtracts(records) ==
    LET ex == [i \in 1..Len(records) |-> extract_text(records[i])]
        keep == SelectSeq(ex, LAMBDA r : ~IsBlank(r.text))
    IN  [i \in 1..Len(keep) |-> [role |-> keep[i].role, text |-> keep[i].text]]

\* C12: in either mode the aggregated message list of a file is the
\* sequence, in source order, of the extracted records whose text is not
\* blank: no message has blank text, none with text is dropped, and the
\* order is the order of the records.
C12_MessagesAreNonBlankSubsequence ==
    lastFile # NoInput =>
        /\ lastOut.messages = NonBlankExtracts(ExtractedRecords)
        /\ \A i \in 1..Len(lastOut.messages) :
               ~IsBlank(lastOut.messages[i].text)
        /\ Len(lastOut.messages) <= Len(ExtractedRecords)

\* A document whose records are two candidates, one of them without text,
\* and a second object: three records, two messages, in this order.
C12_Witness ==
    /\ lastFile # NoInput
    /\ lastFile.kind = "json"
    /\ lastOut.wrote
    /\ Len(ExtractedRecords) = 3
    /\ Len(lastOut.messages) = 2
    /\ lastOut.messages[1].text # lastOut.messages[2].text
    /\ Get(lastOut.objs[1], "candidates").t = "list"

\* C13: once a run has rendered and saved, the persisted ChangeSet is the
\* mapping of the scan; an incremental run that follows with no file
\* changed in between selects nothing, renders nothing, adds no artifact
\* and leaves the persisted ChangeSet equal to the mapping of the scan.
C13_RerunIsNoOp ==
    /\ (pc = "returned" /\ outcome = "exported") =>
           /\ clean
           /\ load_state(stateFile) = scan_state(files)
    /\ (pc # "idle" /\ mode = "incr" /\ clean /\ outcome # "exported") =>
           /\ files_to_export = <<>>
           /\ ~rendered
           /\ pc \in {"selected", "returned"}
           /\ pc = "returned" => outcome = "noop"
           /\ listdir = run0.listdir
           /\ stateFile = run0.stateFile
           /\ load_state(stateFile) = scan_state(files)

\* An incremental run that found nothing to do right after an export that
\* recorded two files and left an artifact.
C13_Witness ==
    /\ pc = "returned"
    /\ mode = "incr"
    /\ clean
    /\ outcome = "noop"
    /\ Cardinality(DOMAIN load_state(stateFile)) >= 2
    /\ listdir # {}

\* The persisted ChangeSet records the tracked pair: its path with the
\* digest of its content.
TrackedRecorded ==
    /\ tracked[1] \in DOMAIN load_state(stateFile)
    /\ load_state(stateFile)[tracked[1]] = hash_file(tracked[2])

\* C14: from an empty persisted state, through runs, file changes and
\* failed renderings, a pair of path and digest the persisted ChangeSet
\* records was in the batch of a run whose rendering returned while the
\* file had that digest.
C14_NoLostExport == TrackedRecorded => tracked_rendered

\* An incremental export, the second artifact at least, whose saved state
\* keeps the tracked pair from an earlier run: the pair is not in this batch.
C14_Witness ==
    /\ pc = "returned"
    /\ mode = "incr"
    /\ outcome = "exported"
    /\ TrackedRecorded
    /\ tracked_rendered
    /\ tracked[1] \notin Range(files_to_export)
    /\ Cardinality(listdir) >= 2

====
